---------------------------- MODULE Spec2Model ----------------------------
(***************************************************************************)
(* Matchmaking and session coordination of the RandomChat backend:         *)
(* the Redis lock of src/config/redis.ts, the sessions table and the       *)
(* Session model, the socket connection handler of src/server.ts and the   *)
(* queue / pairing tick that the specification describes; further the     *)
(* presence heartbeat, the register handler, the session cache             *)
(* reconciliation, the circuit breaker, the socket rate limiter and the    *)
(* refresh tokens of the TokenService.                                     *)
(***************************************************************************)
EXTENDS Integers, Sequences, FiniteSets, TLC

\* ------------------------------------------------------------------ bounds
NumInstances == 2
NumKeys == 2
NumUsers == 3
MaxSessions == 2
MaxEndCalls == 2
MaxClock == 2
MaxQClock == 3
MaxQueueAge == 1

Instances == 1..NumInstances
Keys == 1..NumKeys
Users == 1..NumUsers
SessionIds == 1..MaxSessions
EndCalls == 1..MaxEndCalls

\* the value a key does not have; Redis GET answers null
Nil == "nil"
NoOne == 0

VARIABLES
  \* ---- the coordination store's lock keys (src/config/redis.ts)
  lockVal,      \* key -> Nil or the stored string
  lockSetter,   \* key -> the instance whose SET created the key (NoOne if absent)
  lockPx,       \* key -> the PX argument the key was created with (0 if absent)
  storeUp,      \* whether the store answers commands
  \* ---- one withLock call per instance
  pc,           \* instance -> "idle" | "acquiring" | "callback" | "finally" | "dead"
  lkey,         \* instance -> lockKey argument of its current call
  lttl,         \* instance -> ttl argument of its current call
  acquired,     \* instance -> what its last acquireLock returned
  outcome,      \* instance -> how its callback ended: "none" | "value" | "throw"
  result        \* instance -> how its last withLock settled

lockVars == <<lockVal, lockSetter, lockPx, storeUp, pc, lkey, lttl, acquired, outcome, result>>

VARIABLES
  \* ---- the sessions table (migration 003) and the callers of the Session model
  now,          \* the database clock NOW(), in ticks of MinutesPerTick minutes
  dbUp,         \* whether query() succeeds; when it throws, the catch branches run
  sessions,     \* session id -> NoRow or the row
  createRes,    \* what the last Session.create returned: NotCalled, NullSession or the row's id
  endCall       \* call slot -> the Session.endSession call made in it

sessVars == <<now, dbUp, sessions, createRes, endCall>>

VARIABLES
  \* ---- sockets of src/server.ts and the records of the PresenceTracker
  sock,             \* user -> "none" | "open" | "closed": the user's socket
  connectionCount,  \* what the load balancer was last told: io.sockets.sockets.size
  presence,         \* user -> NoPresence or the record under user:online:<userId>
  socketUser        \* socket -> NoOne or the user under socket:user:<socketId>

connVars == <<sock, connectionCount, presence, socketUser>>

VARIABLES
  \* ---- the waiting queue of one session type and the pairing tick
  queue,        \* the queue's entries, oldest first
  qclock,       \* the time the Queue Manager reads; every join gets its own instant
  tpc,          \* instance -> where its tick's callback stands: "peek" | "commit" | "done"
  cand,         \* instance -> the entries its tick has read and not yet committed
  qop,          \* the Queue Manager operation that last wrote the queue, and for whom
  timedOut      \* the users that operation sent the "search timed out" event to

pairVars == <<queue, qclock, tpc, cand, qop, timedOut>>

VARIABLES
  \* ---- calls of the PresenceTracker in flight, and the shared bus
  pcall,        \* instance -> the tracker call it has in flight and what the call has read
  published,    \* the message the last tracker step published on the bus, if any
  lastPresence  \* user -> the last of set-online, set-offline, expiry that completed for the user

presVars == <<pcall, published, lastPresence>>

VARIABLES
  \* ---- the life of one user's presence key under heartbeats, in seconds
  ttlLeft,      \* user -> seconds until user:online:<userId> expires (0: the key is gone)
  sinceBeat,    \* user -> seconds since the user's last heartbeat was due
  lostRun,      \* user -> how many heartbeats in a row did not arrive
  recovered     \* user -> the length of the run of losses the last arrived heartbeat followed

beatVars == <<ttlLeft, sinceBeat, lostRun, recovered>>

VARIABLES
  \* ---- POST /api/v1/auth/register (src/controllers/authController.ts)
  accounts,     \* the usernames AuthService.register has created an account for
  regTokens,    \* the usernames a refresh token is stored for
  regReq,       \* the body of the last register request
  regRes,       \* the response to it: status and the success field
  regCalled     \* whether the handler of that request called AuthService.register

regVars == <<accounts, regTokens, regReq, regRes, regCalled>>

VARIABLES
  \* ---- the connections of a user that connects again
  liveConn,     \* user -> the socket id of the user's live connection (NoOne: none)
  closing       \* the <<user, socket id>> of connections replaced or closed, teardown pending

reconnVars == <<liveConn, closing>>

VARIABLES
  \* ---- the Session Manager's fast-path cache and the cleanup job's reconciliation
  cacheSessions,  \* session id -> NoRow or the session the cache holds as active
  durable,        \* session id -> NoRow or the row whose durable write is queued
  cleaned         \* the ids that cleanupStaleRedisSessions has ended

cacheVars == <<cacheSessions, durable, cleaned>>

VARIABLES
  \* ---- one CircuitBreaker (src/middleware/circuitBreaker.ts) and its callers
  cbState,               \* this.state: "CLOSED" | "OPEN" | "HALF_OPEN"
  failures,              \* this.failures
  successCount,          \* this.successCount
  timeSinceLastFailure,  \* Date.now() - this.lastFailureTime, counted up to resetTimeout
  inflight,              \* the calls of fn that execute is awaiting
  cbLast,                \* what the last step of the breaker or its middleware did
  failRun,               \* failed calls since the last successful one
  trials                 \* how the calls that ended while HALF_OPEN went, the last three

cbVars == <<cbState, failures, successCount, timeSinceLastFailure, inflight, cbLast, failRun, trials>>

VARIABLES
  \* ---- the socket rate limiter of one event (src/websocket/middleware/wsRateLimit.ts)
  rlCount,      \* user -> the value of ratelimit:ws:<userId>:<event> (0: no key)
  rlHasTtl,     \* user -> whether the key has an expiry
  rlpc,         \* user -> "idle", or "pexpire" while the limiter awaits pexpire
  rlLast        \* user -> how the limiter answered the user's last event

rlVars == <<rlCount, rlHasTtl, rlpc, rlLast>>

VARIABLES
  \* ---- the refresh tokens of one user (src/services/auth/tokenService.ts)
  signed,       \* the refresh tokens generateRefreshToken has signed for the user
  storedToken,  \* the value under token:refresh:<userId> (NoToken: no key)
  blacklist,    \* the tokens that have a token:blacklist:<token> key
  rotated,      \* the tokens a rotateRefreshToken call has succeeded on
  tokLast       \* the last call: its name, its argument and what it returned

tokVars == <<signed, storedToken, blacklist, rotated, tokLast>>

coreVars == <<lockVars, sessVars, connVars, pairVars, presVars>>
otherVars == <<beatVars, regVars, reconnVars, cacheVars, cbVars, rlVars, tokVars>>

vars == <<coreVars, otherVars>>

\* ------------------------------------------------------- RedisService lock

\* withLock(lockKey, callback, ttl = 5000)
DefaultLockTtl == 5000
\* pairingEngine.start(2000): the tick interval, the ceiling of the tick's lock ttl
TickInterval == 2000
LockTtls == {TickInterval, DefaultLockTtl}

\* a catch branch that reports success
AcquireResultFailOpen(k) ==
  ~storeUp \/ lockVal[k] = Nil

\* redisClient.set(key, '1', 'PX', ttl, 'NX') answers 'OK' only when the key
\* is absent; a command the store cannot serve throws and the catch returns false
AcquireResult(k) ==
  storeUp /\ lockVal[k] = Nil

\* a SET without NX: always 'OK', overwriting any holder
AcquireLockNoNX(i, k) ==
  /\ acquired' = [acquired EXCEPT ![i] = storeUp]
  /\ IF storeUp
       THEN /\ lockVal' = [lockVal EXCEPT ![k] = "1"]
            /\ lockSetter' = [lockSetter EXCEPT ![k] = i]
            /\ lockPx' = [lockPx EXCEPT ![k] = lttl[i]]
       ELSE UNCHANGED <<lockVal, lockSetter, lockPx>>

\* a refused SET that still renews the expiry of the key it found
AcquireLockExtends(i, k) ==
  /\ acquired' = [acquired EXCEPT ![i] = AcquireResult(k)]
  /\ IF AcquireResult(k)
       THEN /\ lockVal' = [lockVal EXCEPT ![k] = "1"]
            /\ lockSetter' = [lockSetter EXCEPT ![k] = i]
            /\ lockPx' = [lockPx EXCEPT ![k] = lttl[i]]
       ELSE /\ lockPx' = [lockPx EXCEPT ![k] = IF storeUp THEN lttl[i] ELSE @]
            /\ UNCHANGED <<lockVal, lockSetter>>

AcquireLock(i, k) ==
  /\ acquired' = [acquired EXCEPT ![i] = AcquireResult(k)]
  /\ IF AcquireResult(k)
       THEN /\ lockVal' = [lockVal EXCEPT ![k] = "1"]
            /\ lockSetter' = [lockSetter EXCEPT ![k] = i]
            /\ lockPx' = [lockPx EXCEPT ![k] = lttl[i]]
       ELSE UNCHANGED <<lockVal, lockSetter, lockPx>>

\* redisClient.del(key): unconditional; an error is logged and swallowed
ReleaseLock(k) ==
  IF storeUp
    THEN /\ lockVal' = [lockVal EXCEPT ![k] = Nil]
         /\ lockSetter' = [lockSetter EXCEPT ![k] = NoOne]
         /\ lockPx' = [lockPx EXCEPT ![k] = 0]
    ELSE UNCHANGED <<lockVal, lockSetter, lockPx>>

\* a key stored without expiry
ExpireNever(k) ==
  /\ FALSE
  /\ UNCHANGED lockVars

\* the PX ttl of the SET elapses: Redis drops the key
Expire(k) ==
  /\ lockVal[k] # Nil
  /\ lockVal' = [lockVal EXCEPT ![k] = Nil]
  /\ lockSetter' = [lockSetter EXCEPT ![k] = NoOne]
  /\ lockPx' = [lockPx EXCEPT ![k] = 0]
  /\ UNCHANGED <<storeUp, pc, lkey, lttl, acquired, outcome, result>>

\* withLock(lockKey, callback, ttl) is entered: the SET command is in flight
WithLockCall(i, k) ==
  /\ pc[i] = "idle"
  /\ pc' = [pc EXCEPT ![i] = "acquiring"]
  /\ lkey' = [lkey EXCEPT ![i] = k]
  /\ acquired' = [acquired EXCEPT ![i] = FALSE]
  /\ outcome' = [outcome EXCEPT ![i] = "none"]
  /\ result' = [result EXCEPT ![i] = "none"]
  /\ \E ttl \in LockTtls : lttl' = [lttl EXCEPT ![i] = ttl]
  /\ UNCHANGED <<lockVal, lockSetter, lockPx, storeUp>>

\* const acquired = await this.acquireLock(...); if (!acquired) return null
WithLockAcquire(i) ==
  /\ pc[i] = "acquiring"
  /\ AcquireLock(i, lkey[i])
  /\ pc' = [pc EXCEPT ![i] = IF acquired'[i] THEN "callback" ELSE "idle"]
  /\ result' = [result EXCEPT ![i] = IF acquired'[i] THEN "none" ELSE "null"]
  /\ UNCHANGED <<storeUp, lkey, lttl, outcome>>

\* try { return await callback() }: the callback resolves or rejects
CallbackEnds(i, how) ==
  /\ pc[i] = "callback"
  /\ pc' = [pc EXCEPT ![i] = "finally"]
  /\ outcome' = [outcome EXCEPT ![i] = how]
  /\ UNCHANGED <<lockVal, lockSetter, lockPx, storeUp, lkey, lttl, acquired, result>>

\* a helper that releases only after a callback that returned
WithLockFinallyNoThrow(i) ==
  /\ pc[i] = "finally"
  /\ IF outcome[i] = "value"
       THEN ReleaseLock(lkey[i])
       ELSE UNCHANGED <<lockVal, lockSetter, lockPx>>
  /\ pc' = [pc EXCEPT ![i] = "idle"]
  /\ result' = [result EXCEPT ![i] = outcome[i]]
  /\ UNCHANGED <<storeUp, lkey, lttl, acquired, outcome>>

\* finally { await this.releaseLock(lockKey) }, then the result settles
WithLockFinally(i) ==
  /\ pc[i] = "finally"
  /\ ReleaseLock(lkey[i])
  /\ pc' = [pc EXCEPT ![i] = "idle"]
  /\ result' = [result EXCEPT ![i] = outcome[i]]
  /\ UNCHANGED <<storeUp, lkey, lttl, acquired, outcome>>

\* the process dies inside its critical section; nothing releases its key
Crash(i) ==
  /\ pc[i] \in {"callback", "finally"}
  /\ pc' = [pc EXCEPT ![i] = "dead"]
  /\ UNCHANGED <<lockVal, lockSetter, lockPx, storeUp, lkey, lttl, acquired, outcome, result>>

\* the store becomes unreachable, or reachable again: its commands throw
\* while it is down
StoreToggle ==
  /\ storeUp' = ~storeUp
  /\ UNCHANGED <<lockVal, lockSetter, lockPx, pc, lkey, lttl, acquired, outcome, result>>

InitLock ==
  /\ lockVal = [k \in Keys |-> Nil]
  /\ lockSetter = [k \in Keys |-> NoOne]
  /\ lockPx = [k \in Keys |-> 0]
  /\ storeUp = TRUE
  /\ pc = [i \in Instances |-> "idle"]
  /\ lkey = [i \in Instances |-> 1]
  /\ lttl = [i \in Instances |-> DefaultLockTtl]
  /\ acquired = [i \in Instances |-> FALSE]
  /\ outcome = [i \in Instances |-> "none"]
  /\ result = [i \in Instances |-> "none"]

\* ------------------------------------------------------------ Session model

\* SessionCleanupJob.ABANDONED_SESSION_TIMEOUT, minutes
AbandonedTimeout == 60
\* minutes of database time in one tick of the model's clock
MinutesPerTick == 90

\* Session.create returned null
NullSession == 0
\* no Session.create has returned yet
NotCalled == -1

NoRow == [status |-> "none", user1 |-> NoOne, user2 |-> NoOne, started_at |-> -1, ended_at |-> -1]
NoCall == [sid |-> 0, arg |-> "none", res |-> "none", at |-> -1]

Participants(r) == {r.user1, r.user2}

\* rows of the table
Rows == {id \in SessionIds : sessions[id] # NoRow}

\* uuid_generate_v4(): an id no row has yet
FreshId == CHOOSE id \in SessionIds : id \notin Rows /\ \A j \in SessionIds : j < id => j \in Rows

\* a table without the constraint sessions_users_different
TableAcceptsSameUser(r) ==
  /\ r.status \in {"active", "ended", "abandoned"}
  /\ r.ended_at = -1 \/ r.ended_at >= r.started_at

\* the CHECK constraints of the sessions table on an inserted row
TableAccepts(r) ==
  /\ r.status \in {"active", "ended", "abandoned"}
  /\ r.user1 # r.user2
  /\ r.ended_at = -1 \/ r.ended_at >= r.started_at

\* SELECT ... WHERE (user1_id = $1 OR user2_id = $1) AND status = 'active'
ActiveSessionsOf(u) ==
  {id \in Rows : sessions[id].status = "active" /\ u \in Participants(sessions[id])}

\* Session.findActiveSession(userId): a row or null
FindActiveSession(u) ==
  IF dbUp /\ ActiveSessionsOf(u) # {} THEN CHOOSE id \in ActiveSessionsOf(u) : \A j \in ActiveSessionsOf(u) : sessions[j].started_at <= sessions[id].started_at ELSE 0

NewRow(u1, u2) ==
  [status |-> "active", user1 |-> u1, user2 |-> u2, started_at |-> now, ended_at |-> -1]

\* Session.create: INSERT ... RETURNING *; any error is caught and null returned
SessionCreate(u1, u2) ==
  /\ Rows # SessionIds
  /\ IF dbUp /\ TableAccepts(NewRow(u1, u2))
       THEN /\ sessions' = [sessions EXCEPT ![FreshId] = NewRow(u1, u2)]
            /\ createRes' = FreshId
       ELSE /\ sessions' = sessions
            /\ createRes' = NullSession

\* an UPDATE whose WHERE clause lacks the status = 'active' condition
EndMatchesAny(id) ==
  id \in Rows

\* the row the UPDATE of endSession matches: WHERE id = $2 AND status = 'active'
EndMatches(id) ==
  id \in Rows /\ sessions[id].status = "active"

\* Session.endSession(id, status):
\*   UPDATE sessions SET status = $1, ended_at = NOW() WHERE id = $2 AND status = 'active'
\* true when a row was updated, false when none was or when query() threw
EndSessionResult(id) ==
  IF ~dbUp THEN "error" ELSE IF EndMatches(id) THEN "true" ELSE "false"

EndSessionRows(id, st) ==
  IF dbUp /\ EndMatches(id)
    THEN [sessions EXCEPT ![id].status = st, ![id].ended_at = now]
    ELSE sessions

\* the next unused call slot
FreeCall == {c \in EndCalls : endCall[c] = NoCall /\ \A d \in EndCalls : d < c => endCall[d] # NoCall}

\* an id that names no row of the table, now or later
UnknownId == 0

EndSession(c, id, st) ==
  /\ c \in FreeCall
  /\ id \in Rows \cup {UnknownId}
  /\ sessions' = EndSessionRows(id, st)
  /\ endCall' = [endCall EXCEPT ![c] = [sid |-> id, arg |-> st, res |-> EndSessionResult(id), at |-> now]]

\* started_at < NOW() - INTERVAL 'maxDurationMinutes minutes'
OverAge(r, maxDurationMinutes) ==
  r.started_at * MinutesPerTick < now * MinutesPerTick - maxDurationMinutes

\* a sweep whose UPDATE lacks the status = 'active' condition
CleanupAnyStatusRows(maxDurationMinutes) ==
  [id \in SessionIds |->
     IF id \in Rows /\ OverAge(sessions[id], maxDurationMinutes)
       THEN [sessions[id] EXCEPT !.status = "abandoned", !.ended_at = now]
       ELSE sessions[id]]

\* Session.cleanupAbandonedSessions(maxDurationMinutes)
CleanupAbandonedRows(maxDurationMinutes) ==
  [id \in SessionIds |->
     IF id \in Rows /\ sessions[id].status = "active" /\ OverAge(sessions[id], maxDurationMinutes)
       THEN [sessions[id] EXCEPT !.status = "abandoned", !.ended_at = now]
       ELSE sessions[id]]

\* ---- the steps of the session specification

CreateStep(u1, u2) ==
  /\ SessionCreate(u1, u2)
  /\ UNCHANGED <<now, dbUp, endCall>>

EndStep(c, id, st) ==
  /\ EndSession(c, id, st)
  /\ UNCHANGED <<now, dbUp, createRes>>

\* SessionCleanupJob.cleanupAbandonedSessions: the sweep with the job's timeout
AbandonedSweep ==
  /\ sessions' = IF dbUp THEN CleanupAbandonedRows(AbandonedTimeout) ELSE sessions
  /\ sessions' # sessions
  /\ UNCHANGED <<now, dbUp, createRes, endCall>>

\* a caller ends a session: Session.endSession(id) with the default status
EndAttempt(id) ==
  /\ id \in Rows
  /\ sessions' = EndSessionRows(id, "ended")
  /\ UNCHANGED <<now, dbUp, createRes, endCall>>

ClockTick ==
  /\ now < MaxClock
  /\ now' = now + 1
  /\ UNCHANGED <<dbUp, sessions, createRes, endCall>>

DbToggle ==
  /\ dbUp' = ~dbUp
  /\ UNCHANGED <<now, sessions, createRes, endCall>>

InitSess ==
  /\ now = 0
  /\ dbUp = TRUE
  /\ sessions = [id \in SessionIds |-> NoRow]
  /\ createRes = NotCalled
  /\ endCall = [c \in EndCalls |-> NoCall]

\* ------------------------------------------- sockets and presence records

\* no record under user:online:<userId>: GET answers null, the user is offline
NoPresence == [status |-> "offline", socketId |-> NoOne]

\* a user's socket id; one connection per user
SocketOf(u) == u

OpenSockets(sk) == {u \in Users : sk[u] = "open"}

\* PresenceTracker.setUserOnline(userId, socketId): both keys are written
\* with the presence TTL
SetUserOnline(u, socketId) ==
  /\ presence' = [presence EXCEPT ![u] = [status |-> "online", socketId |-> socketId]]
  /\ socketUser' = [socketUser EXCEPT ![socketId] = u]

\* PresenceTracker.getUserPresence / isUserOnline: the record, or null
IsUserOnline(u) == presence[u] # NoPresence

\* io.on('connection'): the handler only reports the socket count
SocketConnect(u) ==
  /\ sock[u] # "open"
  /\ sock' = [sock EXCEPT ![u] = "open"]
  /\ connectionCount' = Cardinality(OpenSockets(sock'))
  /\ UNCHANGED <<presence, socketUser>>

\* socket.on('disconnect'): the handler only reports the socket count
SocketDisconnect(u) ==
  /\ sock[u] = "open"
  /\ sock' = [sock EXCEPT ![u] = "closed"]
  /\ connectionCount' = Cardinality(OpenSockets(sock'))
  /\ UNCHANGED <<presence, socketUser>>

\* the user of an open socket is set online
PresenceOnline(u) ==
  /\ sock[u] = "open"
  /\ presence[u] = NoPresence
  /\ SetUserOnline(u, SocketOf(u))
  /\ UNCHANGED <<sock, connectionCount>>

\* PRESENCE_TTL elapses with no refresh: Redis drops both keys of the user
PresenceExpire(u) ==
  /\ presence[u] # NoPresence
  /\ presence' = [presence EXCEPT ![u] = NoPresence]
  /\ socketUser' = [socketUser EXCEPT ![presence[u].socketId] = NoOne]
  /\ UNCHANGED <<sock, connectionCount>>

\* two users that are online are put into a session
OnlineCreate(u1, u2) ==
  /\ IsUserOnline(u1) /\ IsUserOnline(u2)
  /\ sock[u1] = "open" /\ sock[u2] = "open"
  /\ SessionCreate(u1, u2)
  /\ UNCHANGED <<now, dbUp, endCall>>

InitConn ==
  /\ sock = [u \in Users |-> "none"]
  /\ connectionCount = 0
  /\ presence = [u \in Users |-> NoPresence]
  /\ socketUser = [u \in Users |-> NoOne]

\* ------------------------------------------------- PresenceTracker calls

\* the users whose tracker calls are interleaved
NumTracked == 2
TrackedUsers == {u \in Users : u <= NumTracked}

NoPCall == [op |-> "none", userId |-> NoOne, status |-> "offline", read |-> NoPresence]
NoMessage == [channel |-> "none", userId |-> NoOne]

\* RedisService.publish(channel, {userId, ...})
Message(channel, u) == [channel |-> channel, userId |-> u]

\* PresenceTracker.getUserStatus: presence?.status || UserStatus.OFFLINE
GetUserStatus(u) == presence[u].status

\* setUserOnline(userId, socketId): both keys are written, then the online
\* event is published and true returned
SetOnlineCall(u) ==
  /\ SetUserOnline(u, SocketOf(u))
  /\ published' = Message("USER_ONLINE", u)
  /\ lastPresence' = [lastPresence EXCEPT ![u] = "online"]
  /\ UNCHANGED <<pcall, sock, connectionCount>>

\* setUserOffline(userId), first await: const presence = await getUserPresence(userId)
OfflineRead(i, u) ==
  /\ pcall[i] = NoPCall
  /\ pcall' = [pcall EXCEPT ![i] = [op |-> "offline", userId |-> u, status |-> "offline", read |-> presence[u]]]
  /\ published' = NoMessage
  /\ UNCHANGED <<lastPresence, connVars>>

\* setUserOffline, the rest: del of the user's key, del of the key of the
\* socket that was read, publish of the offline event, return true
OfflineWrite(i) ==
  /\ pcall[i].op = "offline"
  /\ presence' = [presence EXCEPT ![pcall[i].userId] = NoPresence]
  /\ socketUser' = IF pcall[i].read.socketId # NoOne
                     THEN [socketUser EXCEPT ![pcall[i].read.socketId] = NoOne]
                     ELSE socketUser
  /\ published' = Message("USER_OFFLINE", pcall[i].userId)
  /\ lastPresence' = [lastPresence EXCEPT ![pcall[i].userId] = "offline"]
  /\ pcall' = [pcall EXCEPT ![i] = NoPCall]
  /\ UNCHANGED <<sock, connectionCount>>

\* refreshPresence(userId), first await: the record is read; with no record
\* the call returns false
RefreshRead(i, u) ==
  /\ pcall[i] = NoPCall
  /\ pcall' = IF presence[u] = NoPresence
                THEN pcall
                ELSE [pcall EXCEPT ![i] = [op |-> "refresh", userId |-> u, status |-> presence[u].status, read |-> presence[u]]]
  /\ published' = NoMessage
  /\ UNCHANGED <<lastPresence, connVars>>

\* refreshPresence, second await: setex of the record that was read
RefreshWrite(i) ==
  /\ pcall[i].op = "refresh"
  /\ presence' = [presence EXCEPT ![pcall[i].userId] = pcall[i].read]
  /\ pcall' = [pcall EXCEPT ![i] = NoPCall]
  /\ published' = NoMessage
  /\ UNCHANGED <<lastPresence, sock, connectionCount, socketUser>>

\* updateUserStatus(userId, status), first await; setUserAway and
\* setUserInCall call it with their status
UpdateRead(i, u, status) ==
  /\ pcall[i] = NoPCall
  /\ pcall' = IF presence[u] = NoPresence
                THEN pcall
                ELSE [pcall EXCEPT ![i] = [op |-> "update", userId |-> u, status |-> status, read |-> presence[u]]]
  /\ published' = NoMessage
  /\ UNCHANGED <<lastPresence, connVars>>

\* updateUserStatus, second await: setex of the record read, with the new
\* status; nothing is published
UpdateWrite(i) ==
  /\ pcall[i].op = "update"
  /\ presence' = [presence EXCEPT ![pcall[i].userId] = [pcall[i].read EXCEPT !.status = pcall[i].status]]
  /\ pcall' = [pcall EXCEPT ![i] = NoPCall]
  /\ published' = NoMessage
  /\ UNCHANGED <<lastPresence, sock, connectionCount, socketUser>>

\* PRESENCE_TTL elapses on the user's keys
PresenceTtlStep(u) ==
  /\ PresenceExpire(u)
  /\ published' = NoMessage
  /\ lastPresence' = [lastPresence EXCEPT ![u] = "expired"]
  /\ UNCHANGED pcall

InitPres ==
  /\ pcall = [i \in Instances |-> NoPCall]
  /\ published = NoMessage
  /\ lastPresence = [u \in Users |-> "none"]

\* --------------------------------------------------- presence heartbeats
\* The sender of the heartbeats is not part of the tracker: refreshPresence is
\* what a heartbeat calls, once every HEARTBEAT_INTERVAL.

PRESENCE_TTL == 300
HEARTBEAT_INTERVAL == 60000

\* the heartbeat interval in the unit of the ttl
HeartbeatSeconds == HEARTBEAT_INTERVAL \div 1000

\* the grain of time
BeatStep == 20

\* heartbeats in a row that the network may lose
LostTolerated == 3

\* a refresh that writes the key with a ttl of four intervals
BeatRefreshShort(u) ==
  IF ttlLeft[u] = 0
    THEN ttlLeft' = ttlLeft
    ELSE ttlLeft' = [ttlLeft EXCEPT ![u] = 4 * HeartbeatSeconds]

\* refreshPresence(userId): no record, return false; else setex with PRESENCE_TTL
BeatRefresh(u) ==
  IF ttlLeft[u] = 0
    THEN ttlLeft' = ttlLeft
    ELSE ttlLeft' = [ttlLeft EXCEPT ![u] = PRESENCE_TTL]

\* time passes for the user; Redis drops the key when its ttl has run out
BeatTimePasses(u) ==
  /\ sinceBeat[u] < HeartbeatSeconds
  /\ sinceBeat' = [sinceBeat EXCEPT ![u] = @ + BeatStep]
  /\ ttlLeft' = [ttlLeft EXCEPT ![u] = IF @ > BeatStep THEN @ - BeatStep ELSE 0]
  /\ UNCHANGED <<lostRun, recovered>>

\* the heartbeat that is due arrives and calls refreshPresence
BeatArrives(u) ==
  /\ sinceBeat[u] >= HeartbeatSeconds
  /\ BeatRefresh(u)
  /\ sinceBeat' = [sinceBeat EXCEPT ![u] = 0]
  /\ recovered' = [recovered EXCEPT ![u] = lostRun[u]]
  /\ lostRun' = [lostRun EXCEPT ![u] = 0]

\* the heartbeat that is due is lost
BeatLost(u) ==
  /\ sinceBeat[u] >= HeartbeatSeconds
  /\ lostRun[u] < LostTolerated
  /\ sinceBeat' = [sinceBeat EXCEPT ![u] = 0]
  /\ lostRun' = [lostRun EXCEPT ![u] = @ + 1]
  /\ UNCHANGED <<ttlLeft, recovered>>

\* every user has just been set online: setex with PRESENCE_TTL
InitBeat ==
  /\ ttlLeft = [u \in Users |-> PRESENCE_TTL]
  /\ sinceBeat = [u \in Users |-> 0]
  /\ lostRun = [u \in Users |-> 0]
  /\ recovered = [u \in Users |-> 0]

\* ------------------------------------------------ AuthController.register
\* AuthService is not among the sources; its validators are taken by their
\* results and its register by what the controller does with its result.

Usernames == {"alice", "bob"}

\* req.body: a field that is missing is the empty string
RegBodies ==
  [username : Usernames \cup {"", "a b"},
   email : {"", "not-an-email", "a@example.com"},
   password : {"", "weak", "Str0ng!Passw0rd"}]

\* AuthService.validateUsername(username).valid
UsernameValid(username) == username \in Usernames

\* AuthService.validatePassword(password).valid
PasswordValid(password) == password = "Str0ng!Passw0rd"

\* AuthService.validateEmail(email)
EmailValid(email) == email = "a@example.com"

Response(status, success) == [status |-> status, success |-> success]
NoResponse == Response("none", FALSE)

\* AuthService.register and tokenService.storeRefreshToken of the handler:
\* null when the username exists, a throw when the database fails
RegisterAccount(body, how) ==
  /\ regCalled' = TRUE
  /\ IF how = "throws"
       THEN /\ regRes' = Response("INTERNAL_SERVER_ERROR", FALSE)
            /\ UNCHANGED <<accounts, regTokens>>
       ELSE IF body.username \in accounts
         THEN /\ regRes' = Response("CONFLICT", FALSE)
              /\ UNCHANGED <<accounts, regTokens>>
         ELSE /\ accounts' = accounts \cup {body.username}
              /\ regTokens' = regTokens \cup {body.username}
              /\ regRes' = Response("CREATED", TRUE)

\* a handler that registers without looking at the password's strength
RegisterUnchecked(body, how) ==
  /\ regReq' = body
  /\ IF body.username = "" \/ body.password = "" \/ ~UsernameValid(body.username)
          \/ (body.email # "" /\ ~EmailValid(body.email))
       THEN /\ regRes' = Response("BAD_REQUEST", FALSE)
            /\ regCalled' = FALSE
            /\ UNCHANGED <<accounts, regTokens>>
       ELSE RegisterAccount(body, how)

\* AuthController.register(req, res): the checks in the handler's order, each
\* answering 400 and returning; then the registration
Register(body, how) ==
  /\ regReq' = body
  /\ IF body.username = "" \/ body.password = ""
       THEN /\ regRes' = Response("BAD_REQUEST", FALSE)
            /\ regCalled' = FALSE
            /\ UNCHANGED <<accounts, regTokens>>
       ELSE IF ~UsernameValid(body.username)
         THEN /\ regRes' = Response("BAD_REQUEST", FALSE)
              /\ regCalled' = FALSE
              /\ UNCHANGED <<accounts, regTokens>>
         ELSE IF ~PasswordValid(body.password)
           THEN /\ regRes' = Response("BAD_REQUEST", FALSE)
                /\ regCalled' = FALSE
                /\ UNCHANGED <<accounts, regTokens>>
           ELSE IF body.email # "" /\ ~EmailValid(body.email)
             THEN /\ regRes' = Response("BAD_REQUEST", FALSE)
                  /\ regCalled' = FALSE
                  /\ UNCHANGED <<accounts, regTokens>>
             ELSE RegisterAccount(body, how)

InitReg ==
  /\ accounts = {}
  /\ regTokens = {}
  /\ regReq = [username |-> "", email |-> "", password |-> ""]
  /\ regRes = NoResponse
  /\ regCalled = FALSE

\* ------------------------------------------------ reconnecting users
\* A connection that authenticates calls setUserOnline(userId, socket.id);
\* the teardown of a connection calls setUserOffline(userId).

SocketIds == Users

\* socket ids that no connection has had
FreshSockets == {sid \in SocketIds : socketUser[sid] = NoOne /\ \A u \in Users : <<u, sid>> \notin closing}

\* the user connects on a new socket: setUserOnline(u, sid) runs; a
\* connection the user had before is left to its teardown
ConnectOnline(u, sid) ==
  /\ sid \in FreshSockets
  /\ SetUserOnline(u, sid)
  /\ published' = Message("USER_ONLINE", u)
  /\ lastPresence' = [lastPresence EXCEPT ![u] = "online"]
  /\ liveConn' = [liveConn EXCEPT ![u] = sid]
  /\ closing' = IF liveConn[u] = NoOne THEN closing ELSE closing \cup {<<u, liveConn[u]>>}
  /\ UNCHANGED <<pcall, sock, connectionCount>>

\* the user's live connection closes
ConnectionCloses(u) ==
  /\ liveConn[u] # NoOne
  /\ liveConn' = [liveConn EXCEPT ![u] = NoOne]
  /\ closing' = closing \cup {<<u, liveConn[u]>>}
  /\ UNCHANGED <<connVars, presVars>>

\* the teardown of a closed connection calls setUserOffline(userId): the
\* call's argument is the user, not the connection
TeardownRead(i, u, sid) ==
  /\ <<u, sid>> \in closing
  /\ OfflineRead(i, u)
  /\ closing' = closing \ {<<u, sid>>}
  /\ UNCHANGED liveConn

TeardownWrite(i) ==
  /\ OfflineWrite(i)
  /\ UNCHANGED reconnVars

InitReconn ==
  /\ liveConn = [u \in Users |-> NoOne]
  /\ closing = {}

\* ------------------------------------- stale-session reconciliation
\* sessionManager is described by the specification (4.4): create writes the
\* session to the fast-path cache and queues the durable write.

\* an id the Session Manager has not used
UnusedIds ==
  {id \in SessionIds : /\ cacheSessions[id] = NoRow /\ durable[id] = NoRow
                       /\ sessions[id] = NoRow /\ id \notin cleaned}

\* create(type, userA, userB): the cache holds the session, the write is queued
CachedCreate(id, u1, u2) ==
  /\ id \in UnusedIds
  /\ cacheSessions' = [cacheSessions EXCEPT ![id] = NewRow(u1, u2)]
  /\ durable' = [durable EXCEPT ![id] = NewRow(u1, u2)]
  /\ UNCHANGED <<cleaned, sessVars>>

\* the queued durable write reaches the sessions table
DurableWrite(id) ==
  /\ durable[id] # NoRow
  /\ dbUp
  /\ sessions' = [sessions EXCEPT ![id] = durable[id]]
  /\ durable' = [durable EXCEPT ![id] = NoRow]
  /\ UNCHANGED <<cacheSessions, cleaned, now, dbUp, createRes, endCall>>

\* sessionManager.endSession(id): the session leaves the cache and its row,
\* if it is active, is ended
ManagerEnd(id) ==
  /\ cacheSessions' = [cacheSessions EXCEPT ![id] = NoRow]
  /\ sessions' = EndSessionRows(id, "ended")
  /\ UNCHANGED <<durable, now, dbUp, createRes, endCall>>

\* Session.findById(id): the row, or null also when the query fails
FindById(id) == IF dbUp THEN sessions[id] ELSE NoRow

\* cleanupStaleRedisSessions, for one of the sessions getAllActiveSessions
\* returned: no row, or a row that is not active, and the session is ended
CleanupStaleRedisSession(id) ==
  /\ cacheSessions[id] # NoRow
  /\ IF FindById(id) = NoRow \/ FindById(id).status # "active"
       THEN /\ ManagerEnd(id)
            /\ cleaned' = cleaned \cup {id}
       ELSE UNCHANGED <<cacheVars, sessVars>>

\* a participant ends the session
UserEnds(id) ==
  /\ cacheSessions[id] # NoRow
  /\ ManagerEnd(id)
  /\ UNCHANGED cleaned

InitCache ==
  /\ cacheSessions = [id \in SessionIds |-> NoRow]
  /\ durable = [id \in SessionIds |-> NoRow]
  /\ cleaned = {}

\* ---------------------------------------------------------- CircuitBreaker
\* breakers.external: new CircuitBreaker({ failureThreshold: 3, resetTimeout: 120000, ... })
failureThreshold == 3
resetTimeout == 120000

\* the grain of time, the calls in flight and the failures counted at most
CbStep == 60000
MaxInflight == 2
MaxFailures == 5

\* the success count at which onSuccess closes the breaker
TrialSuccesses == 3

LastThree(seq) == IF Len(seq) > 3 THEN SubSeq(seq, Len(seq) - 2, Len(seq)) ELSE seq

\* Date.now() advances
CbTimePasses ==
  /\ timeSinceLastFailure < resetTimeout
  /\ timeSinceLastFailure' = IF timeSinceLastFailure + CbStep >= resetTimeout
                               THEN resetTimeout
                               ELSE timeSinceLastFailure + CbStep
  /\ UNCHANGED <<cbState, failures, successCount, inflight, cbLast, failRun, trials>>

\* execute(fn) up to the await: an OPEN breaker throws before the reset
\* timeout and becomes HALF_OPEN after it; otherwise fn is called
Execute ==
  IF cbState = "OPEN" /\ timeSinceLastFailure < resetTimeout
    THEN /\ cbLast' = "rejected"
         /\ UNCHANGED <<cbState, failures, successCount, timeSinceLastFailure, inflight, failRun, trials>>
    ELSE /\ inflight < MaxInflight
         /\ inflight' = inflight + 1
         /\ cbState' = IF cbState = "OPEN" THEN "HALF_OPEN" ELSE cbState
         /\ successCount' = IF cbState = "OPEN" THEN 0 ELSE successCount
         /\ trials' = IF cbState = "OPEN" THEN <<>> ELSE trials
         /\ cbLast' = "invoked"
         /\ UNCHANGED <<failures, timeSinceLastFailure, failRun>>

\* fn resolves: onSuccess()
FnSucceeds ==
  /\ inflight > 0
  /\ inflight' = inflight - 1
  /\ failures' = 0
  /\ failRun' = 0
  /\ IF cbState = "HALF_OPEN"
       THEN /\ successCount' = successCount + 1
            /\ cbState' = IF successCount + 1 >= TrialSuccesses THEN "CLOSED" ELSE cbState
            /\ trials' = LastThree(Append(trials, "success"))
       ELSE UNCHANGED <<successCount, cbState, trials>>
  /\ cbLast' = "succeeded"
  /\ UNCHANGED timeSinceLastFailure

\* an onFailure that opens the breaker one failure late
OnFailureLate ==
  /\ failures' = failures + 1
  /\ timeSinceLastFailure' = 0
  /\ cbState' = IF failures + 1 > failureThreshold THEN "OPEN" ELSE cbState

\* onFailure()
OnFailure ==
  /\ failures' = failures + 1
  /\ timeSinceLastFailure' = 0
  /\ cbState' = IF failures + 1 >= failureThreshold THEN "OPEN" ELSE cbState

\* fn rejects: onFailure(), and the error is thrown on
FnFails ==
  /\ inflight > 0
  /\ failures < MaxFailures
  /\ inflight' = inflight - 1
  /\ OnFailure
  /\ failRun' = IF failRun < MaxFailures THEN failRun + 1 ELSE failRun
  /\ trials' = IF cbState = "HALF_OPEN" THEN LastThree(Append(trials, "failure")) ELSE trials
  /\ cbLast' = "failed"
  /\ UNCHANGED successCount

\* reset(), called by resetAllCircuitBreakers
CbReset ==
  /\ cbState' = "CLOSED"
  /\ failures' = 0
  /\ successCount' = 0
  /\ timeSinceLastFailure' = resetTimeout
  /\ failRun' = 0
  /\ trials' = <<>>
  /\ cbLast' = "reset"
  /\ UNCHANGED inflight

\* a request on a route behind circuitBreakerMiddleware(serviceName): 503
\* while the breaker is OPEN; otherwise next(), and the handler calls
\* withCircuitBreaker
GuardedRequest ==
  IF cbState = "OPEN"
    THEN /\ cbLast' = "unavailable"
         /\ UNCHANGED <<cbState, failures, successCount, timeSinceLastFailure, inflight, failRun, trials>>
    ELSE Execute

\* withCircuitBreaker(serviceName, fn) called from code behind no middleware
WithCircuitBreaker == Execute

InitBreaker ==
  /\ cbState = "CLOSED"
  /\ failures = 0
  /\ successCount = 0
  /\ timeSinceLastFailure = resetTimeout
  /\ inflight = 0
  /\ cbLast = "none"
  /\ failRun = 0
  /\ trials = <<>>

\* ----------------------------------------------------- createRateLimiter
\* rateLimits['queue:join']: { windowMs: 5000, maxRequests: 3 }
maxRequests == 3

\* the counter's value at which the model stops sending events
MaxCount == 5

\* next() or next(err) after the comparison with maxRequests
Verdict(current) == IF current > maxRequests THEN "blocked" ELSE "admitted"

\* an event arrives: incr; the first increment goes on to pexpire, any other
\* is compared with maxRequests at once
RlIncr(u) ==
  /\ rlpc[u] = "idle"
  /\ rlCount[u] < MaxCount
  /\ rlCount' = [rlCount EXCEPT ![u] = @ + 1]
  /\ IF rlCount[u] + 1 = 1
       THEN /\ rlpc' = [rlpc EXCEPT ![u] = "pexpire"]
            /\ rlLast' = rlLast
       ELSE /\ rlpc' = rlpc
            /\ rlLast' = [rlLast EXCEPT ![u] = Verdict(rlCount[u] + 1)]
  /\ UNCHANGED rlHasTtl

\* pexpire(key, windowMs) succeeds; current is 1
RlPexpire(u) ==
  /\ rlpc[u] = "pexpire"
  /\ rlHasTtl' = [rlHasTtl EXCEPT ![u] = rlCount[u] > 0]
  /\ rlpc' = [rlpc EXCEPT ![u] = "idle"]
  /\ rlLast' = [rlLast EXCEPT ![u] = Verdict(1)]
  /\ UNCHANGED rlCount

\* pexpire throws: the catch block logs and calls next()
RlPexpireFails(u) ==
  /\ rlpc[u] = "pexpire"
  /\ rlpc' = [rlpc EXCEPT ![u] = "idle"]
  /\ rlLast' = [rlLast EXCEPT ![u] = "admitted"]
  /\ UNCHANGED <<rlCount, rlHasTtl>>

\* windowMs after pexpire the store drops the key
RlExpire(u) ==
  /\ rlHasTtl[u]
  /\ rlCount' = [rlCount EXCEPT ![u] = 0]
  /\ rlHasTtl' = [rlHasTtl EXCEPT ![u] = FALSE]
  /\ UNCHANGED <<rlpc, rlLast>>

InitLimit ==
  /\ rlCount = [u \in Users |-> 0]
  /\ rlHasTtl = [u \in Users |-> FALSE]
  /\ rlpc = [u \in Users |-> "idle"]
  /\ rlLast = [u \in Users |-> "none"]

\* ------------------------------------------------------------ TokenService
\* Refresh tokens are numbered in the order they are signed; none of them
\* reaches its exp in the behaviours looked at.

MaxTokens == 4
Tokens == 1..MaxTokens
NoToken == 0

TokenCall(op, token, returned) == [op |-> op, token |-> token, returned |-> returned]

\* generateRefreshToken: the next token
NextToken == Cardinality(signed) + 1

\* login or register: generateTokenPair, then storeRefreshToken
IssueTokens ==
  /\ NextToken \in Tokens
  /\ signed' = signed \cup {NextToken}
  /\ storedToken' = NextToken
  /\ tokLast' = TokenCall("issue", NoToken, "pair")
  /\ UNCHANGED <<blacklist, rotated>>

\* blacklistToken(token), as on logout: the blacklist key is set for the rest
\* of the token's life
BlacklistToken(t) ==
  /\ t \in signed
  /\ blacklist' = blacklist \cup {t}
  /\ tokLast' = TokenCall("blacklist", t, "true")
  /\ UNCHANGED <<signed, storedToken, rotated>>

\* refreshAccessToken(refreshToken): verify; the stored token must be this
\* one, else every token of the user is revoked and null returned
RefreshAccessToken(t) ==
  /\ t \in signed
  /\ IF storedToken = NoToken \/ storedToken # t
       THEN /\ storedToken' = NoToken
            /\ tokLast' = TokenCall("refresh", t, "null")
       ELSE /\ storedToken' = storedToken
            /\ tokLast' = TokenCall("refresh", t, "accessToken")
  /\ UNCHANGED <<signed, blacklist, rotated>>

\* rotateRefreshToken(oldRefreshToken): verify, generateTokenPair,
\* storeRefreshToken of the new token, blacklistToken of the old one, and the
\* new pair is returned
RotateRefreshToken(t) ==
  /\ t \in signed
  /\ NextToken \in Tokens
  /\ signed' = signed \cup {NextToken}
  /\ storedToken' = NextToken
  /\ blacklist' = blacklist \cup {t}
  /\ rotated' = rotated \cup {t}
  /\ tokLast' = TokenCall("rotate", t, "pair")

InitTokens ==
  /\ signed = {}
  /\ storedToken = NoToken
  /\ blacklist = {}
  /\ rotated = {}
  /\ tokLast = TokenCall("none", NoToken, "null")

\* ------------------------------------------ Queue Manager, Pairing Engine
\* The services behind queueManager and pairingEngine are described by the
\* specification (4.2, 4.3); their callers are in src/server.ts and
\* src/jobs/queueMonitor.ts.  One session type is modelled: its queue and its
\* lock key lock:matching:<type>.

\* REDIS_KEYS.LOCK_MATCHING + type, the key of the modelled type
MatchingLock == 1

\* IQueueUser; no entry
NoEntry == [userId |-> NoOne, joinedAt |-> 0]
NoCand == <<NoEntry, NoEntry>>

QueueOp(op, u) == [op |-> op, userId |-> u]

Entries(q) == {q[k] : k \in 1..Len(q)}

HasEntry(q, u) == \E e \in Entries(q) : e.userId = u

\* the queue without the entries of S, order kept
Without(q, S) == SelectSeq(q, LAMBDA e : e \notin S)

\* join(userId, connectionId, type): upserts the user's entry; re-joining
\* replaces the prior entry and refreshes joinedAt
Join(u) ==
  /\ sock[u] = "open"
  /\ qclock < MaxQClock
  /\ qclock' = qclock + 1
  /\ queue' = Append(SelectSeq(queue, LAMBDA e : e.userId # u), [userId |-> u, joinedAt |-> qclock + 1])
  /\ qop' = QueueOp("join", u)
  /\ timedOut' = {}
  /\ UNCHANGED <<tpc, cand>>

\* leave(userId, type): removes the entry; idempotent
Leave(u) ==
  /\ sock[u] = "open"
  /\ queue' = SelectSeq(queue, LAMBDA e : e.userId # u)
  /\ qop' = QueueOp("leave", u)
  /\ timedOut' = {}
  /\ UNCHANGED <<qclock, tpc, cand>>

\* time passes with no join
QueueClockTick ==
  /\ qclock < MaxQClock
  /\ qclock' = qclock + 1
  /\ UNCHANGED <<queue, tpc, cand, qop, timedOut>>

\* an entry whose age exceeds the ceiling
OverMaxAge(e) == qclock - e.joinedAt > MaxQueueAge

\* a sweep that evicts and tells no one
EvictStaleSilent ==
  /\ queue' = SelectSeq(queue, LAMBDA e : ~OverMaxAge(e))
  /\ qop' = QueueOp("evictStale", NoOne)
  /\ timedOut' = {}
  /\ UNCHANGED <<qclock, tpc, cand>>

\* evictStale(maxAgeSeconds): removes the entries older than the ceiling; the
\* user of an evicted entry is sent the "search timed out" event if its
\* connection is still open
EvictStale ==
  /\ queue' = SelectSeq(queue, LAMBDA e : ~OverMaxAge(e))
  /\ qop' = QueueOp("evictStale", NoOne)
  /\ timedOut' = {e.userId : e \in {x \in Entries(queue) : OverMaxAge(x) /\ sock[x.userId] = "open"}}
  /\ UNCHANGED <<qclock, tpc, cand>>

\* QueueMonitorJob.cleanupStaleEntries: await queueManager.cleanupStaleEntries()
MonitorCleanup == EvictStale

\* startCleanupJobs: the server's own timer calls queueManager.cleanupStaleEntries()
ServerCleanup == EvictStale

\* step 1 of a tick: withLock('lock:matching:<type>', ...) is entered
TickCall(i) ==
  /\ WithLockCall(i, MatchingLock)
  /\ lttl'[i] = TickInterval
  /\ tpc' = [tpc EXCEPT ![i] = "peek"]
  /\ cand' = [cand EXCEPT ![i] = NoCand]
  /\ UNCHANGED <<queue, qclock, qop, timedOut>>

\* a reader that takes the oldest and the newest entry
TickPeekNewest(i) ==
  /\ pc[i] = "callback" /\ tpc[i] = "peek"
  /\ IF Len(queue) < 2
       THEN /\ tpc' = [tpc EXCEPT ![i] = "done"]
            /\ cand' = cand
       ELSE /\ tpc' = [tpc EXCEPT ![i] = "commit"]
            /\ cand' = [cand EXCEPT ![i] = <<queue[1], queue[Len(queue)]>>]
  /\ UNCHANGED <<queue, qclock, qop, timedOut>>

\* step 2: read the two oldest entries; with fewer than two, stop
TickPeek(i) ==
  /\ pc[i] = "callback" /\ tpc[i] = "peek"
  /\ IF Len(queue) < 2
       THEN /\ tpc' = [tpc EXCEPT ![i] = "done"]
            /\ cand' = cand
       ELSE /\ tpc' = [tpc EXCEPT ![i] = "commit"]
            /\ cand' = [cand EXCEPT ![i] = <<queue[1], queue[2]>>]
  /\ UNCHANGED <<queue, qclock, qop, timedOut>>

\* step 3: the entry is still queued, its user still online and in no
\* active session
StillValid(e) ==
  /\ e \in Entries(queue)
  /\ IsUserOnline(e.userId)
  /\ ActiveSessionsOf(e.userId) = {}

\* the Session Manager's create: the record of a new active session
ManagerCreate(u1, u2) ==
  /\ sessions' = [sessions EXCEPT ![FreshId] = NewRow(u1, u2)]
  /\ createRes' = FreshId
  /\ UNCHANGED <<now, dbUp, endCall>>

\* a commit that, when one party fails, takes both candidates off the queue
TickCommitDropsPair(i) ==
  /\ pc[i] = "callback" /\ tpc[i] = "commit"
  /\ LET a == cand[i][1]
         b == cand[i][2]
         failed == {e \in {a, b} : ~StillValid(e)}
     IN IF failed = {}
          THEN /\ Rows # SessionIds
               /\ queue' = Without(queue, {a, b})
               /\ ManagerCreate(a.userId, b.userId)
          ELSE /\ queue' = Without(queue, {a, b})
               /\ UNCHANGED sessVars
  /\ tpc' = [tpc EXCEPT ![i] = "peek"]
  /\ cand' = [cand EXCEPT ![i] = NoCand]
  /\ qop' = QueueOp("pop", NoOne)
  /\ timedOut' = {}
  /\ UNCHANGED qclock

\* steps 3 and 4: revalidate immediately before committing.  Both valid:
\* both entries are removed and the session is created.  Otherwise the party
\* that failed leaves the queue, the other keeps its place at the front, and
\* the tick loops to the next candidates.
TickCommit(i) ==
  /\ pc[i] = "callback" /\ tpc[i] = "commit"
  /\ LET a == cand[i][1]
         b == cand[i][2]
         failed == {e \in {a, b} : ~StillValid(e)}
     IN IF failed = {}
          THEN /\ Rows # SessionIds
               /\ queue' = Without(queue, {a, b})
               /\ ManagerCreate(a.userId, b.userId)
          ELSE /\ queue' = Without(queue, failed)
               /\ UNCHANGED sessVars
  /\ tpc' = [tpc EXCEPT ![i] = "peek"]
  /\ cand' = [cand EXCEPT ![i] = NoCand]
  /\ qop' = QueueOp("pop", NoOne)
  /\ timedOut' = {}
  /\ UNCHANGED qclock

\* the callback returns once fewer than two entries are left
TickReturn(i) ==
  /\ tpc[i] = "done"
  /\ CallbackEnds(i, "value")

\* an unexpected error: the tick aborts early, what it had read is dropped
TickAbort(i) ==
  /\ tpc[i] # "done"
  /\ CallbackEnds(i, "throw")
  /\ cand' = [cand EXCEPT ![i] = NoCand]
  /\ UNCHANGED <<queue, qclock, tpc, qop, timedOut>>

InitQueue ==
  /\ queue = <<>>
  /\ qclock = 0
  /\ tpc = [i \in Instances |-> "peek"]
  /\ cand = [i \in Instances |-> NoCand]
  /\ qop = QueueOp("none", NoOne)
  /\ timedOut = {}

\* every user has connected and was set online
InitOnline ==
  /\ sock = [u \in Users |-> "open"]
  /\ connectionCount = NumUsers
  /\ presence = [u \in Users |-> [status |-> "online", socketId |-> SocketOf(u)]]
  /\ socketUser = [u \in Users |-> u]

InitOther ==
  /\ InitBeat
  /\ InitReg
  /\ InitReconn
  /\ InitCache
  /\ InitBreaker
  /\ InitLimit
  /\ InitTokens

InitPair ==
  /\ InitLock
  /\ InitSess
  /\ InitOnline
  /\ InitQueue
  /\ InitPres
  /\ InitOther

Init ==
  /\ InitLock
  /\ InitSess
  /\ InitConn
  /\ InitQueue
  /\ InitPres
  /\ InitOther

LockFrame == UNCHANGED <<otherVars, presVars, sessVars, connVars, pairVars>>

NextLock ==
  \/ \E i \in Instances, k \in Keys : WithLockCall(i, k) /\ LockFrame
  \/ \E i \in Instances : WithLockAcquire(i) /\ LockFrame
  \/ \E i \in Instances, how \in {"value", "throw"} : CallbackEnds(i, how) /\ LockFrame
  \/ \E i \in Instances : WithLockFinally(i) /\ LockFrame
  \/ \E i \in Instances : Crash(i) /\ LockFrame
  \/ \E k \in Keys : Expire(k) /\ LockFrame

SpecLock == Init /\ [][NextLock]_vars

\* Redis expires every key that has a ttl; the timers of an instance that is
\* alive keep calling withLock on every key, and an awaited command, callback
\* or finally block of a live instance completes
LockFairness ==
  /\ \A k \in Keys : WF_vars(Expire(k) /\ LockFrame)
  /\ \A i \in Instances :
       /\ \A k \in Keys : SF_vars(WithLockCall(i, k) /\ LockFrame)
       /\ WF_vars(WithLockAcquire(i) /\ LockFrame)
       /\ WF_vars(CallbackEnds(i, "value") /\ LockFrame)
       /\ WF_vars(WithLockFinally(i) /\ LockFrame)

SpecLockLive == Init /\ [][NextLock]_vars /\ LockFairness

NextFault ==
  \/ \E i \in Instances, k \in Keys : WithLockCall(i, k) /\ LockFrame
  \/ \E i \in Instances : WithLockAcquire(i) /\ LockFrame
  \/ \E i \in Instances, how \in {"value", "throw"} : CallbackEnds(i, how) /\ LockFrame
  \/ \E i \in Instances : WithLockFinally(i) /\ LockFrame
  \/ \E k \in Keys : Expire(k) /\ LockFrame
  \/ StoreToggle /\ LockFrame

SpecFault == Init /\ [][NextFault]_vars

SessFrame == UNCHANGED <<otherVars, presVars, lockVars, connVars, pairVars>>

NextSess ==
  \/ \E u1 \in Users, u2 \in Users : u1 <= u2 /\ CreateStep(u1, u2) /\ SessFrame
  \/ \E c \in EndCalls, id \in SessionIds \cup {UnknownId}, st \in {"ended", "abandoned"} : EndStep(c, id, st) /\ SessFrame
  \/ AbandonedSweep /\ SessFrame
  \/ ClockTick /\ SessFrame
  \/ DbToggle /\ SessFrame

SpecSess == Init /\ [][NextSess]_vars

NextSweep ==
  \/ \E u1 \in Users, u2 \in Users : u1 < u2 /\ CreateStep(u1, u2) /\ SessFrame
  \/ \E id \in SessionIds : EndAttempt(id) /\ SessFrame
  \/ AbandonedSweep /\ SessFrame
  \/ ClockTick /\ SessFrame

\* the cleanup job's timer keeps running the sweep, and callers keep trying
\* to end every session
SweepFairness ==
  /\ WF_vars(AbandonedSweep /\ SessFrame)
  /\ WF_vars(ClockTick /\ SessFrame)
  /\ \A id \in SessionIds : WF_vars(EndAttempt(id) /\ SessFrame)

SpecSweep == Init /\ [][NextSweep]_vars /\ SweepFairness

NextConn ==
  \/ \E u \in Users : SocketConnect(u) /\ UNCHANGED <<otherVars, presVars, lockVars, sessVars, pairVars>>
  \/ \E u \in Users : SocketDisconnect(u) /\ UNCHANGED <<otherVars, presVars, lockVars, sessVars, pairVars>>
  \/ \E u \in Users : PresenceOnline(u) /\ UNCHANGED <<otherVars, presVars, lockVars, sessVars, pairVars>>
  \/ \E u \in Users : PresenceExpire(u) /\ UNCHANGED <<otherVars, presVars, lockVars, sessVars, pairVars>>
  \/ \E u1 \in Users, u2 \in Users : u1 < u2 /\ OnlineCreate(u1, u2) /\ UNCHANGED <<otherVars, presVars, lockVars, pairVars, sock, connectionCount, presence, socketUser>>

SpecConn == Init /\ [][NextConn]_vars

NextPair ==
  \/ \E u \in Users : Join(u) /\ UNCHANGED <<otherVars, presVars, lockVars, sessVars, connVars>>
  \/ \E u \in Users : Leave(u) /\ UNCHANGED <<otherVars, presVars, lockVars, sessVars, connVars>>
  \/ QueueClockTick /\ UNCHANGED <<otherVars, presVars, lockVars, sessVars, connVars>>
  \/ MonitorCleanup /\ UNCHANGED <<otherVars, presVars, lockVars, sessVars, connVars>>
  \/ ServerCleanup /\ UNCHANGED <<otherVars, presVars, lockVars, sessVars, connVars>>
  \/ \E u \in Users : PresenceExpire(u) /\ UNCHANGED <<otherVars, presVars, lockVars, sessVars, pairVars>>
  \/ \E u \in Users : PresenceOnline(u) /\ UNCHANGED <<otherVars, presVars, lockVars, sessVars, pairVars>>
  \/ \E i \in Instances : TickCall(i) /\ UNCHANGED <<otherVars, presVars, sessVars, connVars>>
  \/ \E i \in Instances : WithLockAcquire(i) /\ UNCHANGED <<otherVars, presVars, sessVars, connVars, pairVars>>
  \/ \E i \in Instances : TickPeek(i) /\ UNCHANGED <<otherVars, presVars, lockVars, sessVars, connVars>>
  \/ \E i \in Instances : TickCommit(i) /\ UNCHANGED <<otherVars, presVars, lockVars, connVars>>
  \/ \E i \in Instances : TickReturn(i) /\ UNCHANGED <<otherVars, presVars, sessVars, connVars, pairVars>>
  \/ \E i \in Instances : TickAbort(i) /\ UNCHANGED <<otherVars, presVars, sessVars, connVars>>
  \/ \E i \in Instances : WithLockFinally(i) /\ UNCHANGED <<otherVars, presVars, sessVars, connVars, pairVars>>
  \/ Expire(MatchingLock) /\ UNCHANGED <<otherVars, presVars, sessVars, connVars, pairVars>>

SpecPair == InitPair /\ [][NextPair]_vars

\* joins, leaves and disconnects against the ticks of the pairing engine
NextCancel ==
  \/ \E u \in Users : Join(u) /\ UNCHANGED <<otherVars, presVars, lockVars, sessVars, connVars>>
  \/ \E u \in Users : Leave(u) /\ UNCHANGED <<otherVars, presVars, lockVars, sessVars, connVars>>
  \/ \E u \in Users : SocketDisconnect(u) /\ UNCHANGED <<otherVars, presVars, lockVars, sessVars, pairVars>>
  \/ \E u \in Users : PresenceExpire(u) /\ UNCHANGED <<otherVars, presVars, lockVars, sessVars, pairVars>>
  \/ \E i \in Instances : TickCall(i) /\ UNCHANGED <<otherVars, presVars, sessVars, connVars>>
  \/ \E i \in Instances : WithLockAcquire(i) /\ UNCHANGED <<otherVars, presVars, sessVars, connVars, pairVars>>
  \/ \E i \in Instances : TickPeek(i) /\ UNCHANGED <<otherVars, presVars, lockVars, sessVars, connVars>>
  \/ \E i \in Instances : TickCommit(i) /\ UNCHANGED <<otherVars, presVars, lockVars, connVars>>
  \/ \E i \in Instances : TickReturn(i) /\ UNCHANGED <<otherVars, presVars, sessVars, connVars, pairVars>>
  \/ \E i \in Instances : WithLockFinally(i) /\ UNCHANGED <<otherVars, presVars, sessVars, connVars, pairVars>>

SpecCancel == InitPair /\ [][NextCancel]_vars

\* entries that grow old while the two cleanup timers run
NextStale ==
  \/ \E u \in Users : Join(u) /\ UNCHANGED <<otherVars, presVars, lockVars, sessVars, connVars>>
  \/ \E u \in Users : Leave(u) /\ UNCHANGED <<otherVars, presVars, lockVars, sessVars, connVars>>
  \/ \E u \in Users : SocketDisconnect(u) /\ UNCHANGED <<otherVars, presVars, lockVars, sessVars, pairVars>>
  \/ QueueClockTick /\ UNCHANGED <<otherVars, presVars, lockVars, sessVars, connVars>>
  \/ MonitorCleanup /\ UNCHANGED <<otherVars, presVars, lockVars, sessVars, connVars>>
  \/ ServerCleanup /\ UNCHANGED <<otherVars, presVars, lockVars, sessVars, connVars>>

\* setInterval keeps firing both cleanup callbacks
StaleFairness ==
  /\ WF_vars(MonitorCleanup /\ UNCHANGED <<otherVars, presVars, lockVars, sessVars, connVars>>)
  /\ WF_vars(ServerCleanup /\ UNCHANGED <<otherVars, presVars, lockVars, sessVars, connVars>>)

SpecStale == InitPair /\ [][NextStale]_vars /\ StaleFairness

PresFrame == UNCHANGED <<otherVars, lockVars, sessVars, pairVars>>

NextPres ==
  \/ \E u \in TrackedUsers : SetOnlineCall(u) /\ PresFrame
  \/ \E i \in Instances, u \in TrackedUsers : OfflineRead(i, u) /\ PresFrame
  \/ \E i \in Instances : OfflineWrite(i) /\ PresFrame
  \/ \E i \in Instances, u \in TrackedUsers : RefreshRead(i, u) /\ PresFrame
  \/ \E i \in Instances : RefreshWrite(i) /\ PresFrame
  \/ \E i \in Instances, u \in TrackedUsers, status \in {"away", "in_call"} : UpdateRead(i, u, status) /\ PresFrame
  \/ \E i \in Instances : UpdateWrite(i) /\ PresFrame
  \/ \E u \in TrackedUsers : PresenceTtlStep(u) /\ PresFrame

SpecPres == Init /\ [][NextPres]_vars

BeatFrame == UNCHANGED <<coreVars, regVars, reconnVars, cacheVars, cbVars, rlVars, tokVars>>

NextBeat ==
  \/ \E u \in Users : BeatTimePasses(u) /\ BeatFrame
  \/ \E u \in Users : BeatArrives(u) /\ BeatFrame
  \/ \E u \in Users : BeatLost(u) /\ BeatFrame

SpecBeat == Init /\ [][NextBeat]_vars

RegFrame == UNCHANGED <<coreVars, beatVars, reconnVars, cacheVars, cbVars, rlVars, tokVars>>

NextReg ==
  \/ \E body \in RegBodies, how \in {"returns", "throws"} : Register(body, how) /\ RegFrame

SpecReg == Init /\ [][NextReg]_vars

ReconnFrame == UNCHANGED <<lockVars, sessVars, pairVars, beatVars, regVars, cacheVars, cbVars, rlVars, tokVars>>

NextReconn ==
  \/ \E u \in TrackedUsers, sid \in SocketIds : ConnectOnline(u, sid) /\ ReconnFrame
  \/ \E u \in TrackedUsers : ConnectionCloses(u) /\ ReconnFrame
  \/ \E i \in Instances, u \in TrackedUsers, sid \in SocketIds : TeardownRead(i, u, sid) /\ ReconnFrame
  \/ \E i \in Instances : TeardownWrite(i) /\ ReconnFrame

SpecReconn == Init /\ [][NextReconn]_vars

CacheFrame == UNCHANGED <<lockVars, connVars, pairVars, presVars, beatVars, regVars, reconnVars, cbVars, rlVars, tokVars>>

NextCache ==
  \/ \E id \in SessionIds, u1 \in Users, u2 \in Users : u1 < u2 /\ CachedCreate(id, u1, u2) /\ CacheFrame
  \/ \E id \in SessionIds : DurableWrite(id) /\ CacheFrame
  \/ \E id \in SessionIds : CleanupStaleRedisSession(id) /\ CacheFrame
  \/ \E id \in SessionIds : UserEnds(id) /\ CacheFrame

SpecCache == Init /\ [][NextCache]_vars

BreakerFrame == UNCHANGED <<coreVars, beatVars, regVars, reconnVars, cacheVars, rlVars, tokVars>>

NextBreaker ==
  \/ CbTimePasses /\ BreakerFrame
  \/ WithCircuitBreaker /\ BreakerFrame
  \/ GuardedRequest /\ BreakerFrame
  \/ FnSucceeds /\ BreakerFrame
  \/ FnFails /\ BreakerFrame
  \/ CbReset /\ BreakerFrame

SpecBreaker == Init /\ [][NextBreaker]_vars

\* time passes, requests keep coming to the guarded routes, and a call of fn
\* that is awaited settles
BreakerFairness ==
  /\ WF_vars(CbTimePasses /\ BreakerFrame)
  /\ WF_vars(GuardedRequest /\ BreakerFrame)
  /\ WF_vars((FnSucceeds \/ FnFails) /\ BreakerFrame)

NextGuarded ==
  \/ CbTimePasses /\ BreakerFrame
  \/ WithCircuitBreaker /\ BreakerFrame
  \/ GuardedRequest /\ BreakerFrame
  \/ FnSucceeds /\ BreakerFrame
  \/ FnFails /\ BreakerFrame

SpecBreakerLive == Init /\ [][NextGuarded]_vars /\ BreakerFairness

LimitFrame == UNCHANGED <<coreVars, beatVars, regVars, reconnVars, cacheVars, cbVars, tokVars>>

NextLimit ==
  \/ \E u \in TrackedUsers : RlIncr(u) /\ LimitFrame
  \/ \E u \in TrackedUsers : RlPexpire(u) /\ LimitFrame
  \/ \E u \in TrackedUsers : RlPexpireFails(u) /\ LimitFrame
  \/ \E u \in TrackedUsers : RlExpire(u) /\ LimitFrame

\* the store expires a key that has a ttl, and an awaited pexpire settles
LimitFairness ==
  \A u \in TrackedUsers :
    /\ WF_vars(RlExpire(u) /\ LimitFrame)
    /\ WF_vars((RlPexpire(u) \/ RlPexpireFails(u)) /\ LimitFrame)

SpecLimit == Init /\ [][NextLimit]_vars /\ LimitFairness

TokenFrame == UNCHANGED <<coreVars, beatVars, regVars, reconnVars, cacheVars, cbVars, rlVars>>

NextTokens ==
  \/ IssueTokens /\ TokenFrame
  \/ \E t \in Tokens : RefreshAccessToken(t) /\ TokenFrame
  \/ \E t \in Tokens : RotateRefreshToken(t) /\ TokenFrame
  \/ \E t \in Tokens : BlacklistToken(t) /\ TokenFrame

SpecTokens == Init /\ [][NextTokens]_vars

\* ------------------------------------------------------------------ claims

\* C11: an acquire that finds the key held skips the critical section: the
\* helper returns null at once, the callback is not invoked, and the holder's
\* key keeps its value, its holder and its expiry.
SkipWhenHeld ==
  [][\A i \in Instances :
       (pc[i] = "acquiring" /\ pc'[i] # "acquiring" /\ lockVal[lkey[i]] # Nil) =>
         /\ pc'[i] = "idle"
         /\ result'[i] = "null"
         /\ outcome'[i] = "none"
         /\ lockVal'[lkey[i]] = lockVal[lkey[i]]
         /\ lockSetter'[lkey[i]] = lockSetter[lkey[i]]
         /\ lockPx'[lkey[i]] = lockPx[lkey[i]]]_vars

\* a caller with another ttl was refused while the holder is in its callback
SkipWhenHeldWitness ==
  \E i \in Instances, j \in Instances :
    /\ i # j
    /\ lkey[i] = lkey[j]
    /\ pc[j] = "callback" /\ lockSetter[lkey[j]] = j
    /\ pc[i] = "idle" /\ result[i] = "null" /\ outcome[i] = "none"
    /\ lttl[i] # lockPx[lkey[j]]

\* C12: a key whose holder died is taken by another instance later, unless
\* no other instance is left alive.
CrashedHolderFreed ==
  \A i \in Instances, k \in Keys :
    (pc[i] = "dead" /\ lockSetter[k] = i) ~>
      \/ \E j \in Instances \ {i} : lockSetter[k] = j /\ pc[j] = "callback" /\ lkey[j] = k
      \/ \A j \in Instances \ {i} : pc[j] = "dead"

\* an instance died in its critical section and another one holds its key
CrashedHolderFreedWitness ==
  \E i \in Instances, j \in Instances :
    /\ i # j
    /\ pc[i] = "dead" /\ acquired[i]
    /\ lkey[j] = lkey[i]
    /\ pc[j] = "callback" /\ lockSetter[lkey[i]] = j

\* C19: an acquire made while the store cannot be reached reports failure:
\* the helper returns null, no key is written and the callback does not run;
\* a callback runs only after an acquire that succeeded.
FailClosed ==
  [][\A i \in Instances :
       /\ (pc[i] = "acquiring" /\ pc'[i] # "acquiring" /\ ~storeUp) =>
            /\ ~acquired'[i]
            /\ pc'[i] = "idle"
            /\ result'[i] = "null"
            /\ outcome'[i] = "none"
            /\ lockVal' = lockVal
       /\ pc'[i] = "callback" => (acquired'[i] /\ (pc[i] = "acquiring" => storeUp))]_vars

\* the store is down and a caller was refused a key that nobody holds
FailClosedWitness ==
  \E i \in Instances :
    /\ ~storeUp
    /\ pc[i] = "idle" /\ result[i] = "null" /\ ~acquired[i]
    /\ lockVal[lkey[i]] = Nil

\* C20: no row names the same user twice, and a create with userA = userB
\* stores nothing and returns null.
UsersDiffer ==
  [][/\ \A id \in SessionIds : sessions'[id] # NoRow => sessions'[id].user1 # sessions'[id].user2
     /\ \A u \in Users : CreateStep(u, u) => (sessions' = sessions /\ createRes' = NullSession)]_vars

\* a create was refused by a database that is up and has room, and the
\* table holds a session of two users
UsersDifferWitness ==
  /\ dbUp
  /\ createRes = NullSession
  /\ Cardinality(Rows) = 1
  /\ \A c \in EndCalls : endCall[c] = NoCall

\* C17: a session that the sweep marked abandoned reaches status ended.
AbandonedReachesEnded ==
  \A id \in SessionIds :
    (sessions[id].status = "abandoned") ~> (sessions[id].status = "ended")

\* a session that this step created and that names u
MatchedNow(u) ==
  \E id \in SessionIds :
    /\ sessions[id] = NoRow
    /\ sessions'[id] # NoRow
    /\ sessions'[id].status = "active"
    /\ u \in Participants(sessions'[id])

\* C21: the ttl is at least five heartbeat intervals, and the presence key of
\* a user whose heartbeats come every interval, with at most three in a row
\* lost, never expires.
NoFlapping ==
  /\ PRESENCE_TTL * 1000 >= 5 * HEARTBEAT_INTERVAL
  /\ \A u \in Users : ttlLeft[u] > 0

NoFlappingWitness ==
  \E u \in Users : recovered[u] = LostTolerated /\ ttlLeft[u] = PRESENCE_TTL

\* C22: a register request whose password fails the strength validation is
\* answered 400 with success false, AuthService.register is not called for it,
\* and no account and no refresh token is added.
WeakPasswordRejected ==
  [][~PasswordValid(regReq'.password) =>
       /\ regRes' = Response("BAD_REQUEST", FALSE)
       /\ ~regCalled'
       /\ accounts' = accounts
       /\ regTokens' = regTokens]_regVars

WeakPasswordRejectedWitness ==
  /\ regReq.password = "weak"
  /\ regReq.username \in Usernames \ accounts
  /\ regReq.email = "a@example.com"
  /\ regRes = Response("BAD_REQUEST", FALSE)
  /\ accounts # {}

\* C23: the step in which a refreshPresence call writes the record of a user
\* that has one leaves the record's status and socket id as they are.
RefreshKeepsStatus ==
  [][\A i \in Instances :
       (pcall[i].op = "refresh" /\ pcall'[i] = NoPCall /\ presence[pcall[i].userId] # NoPresence) =>
         presence'[pcall[i].userId] = presence[pcall[i].userId]]_vars

\* C24: a user with a live connection has the presence record that names
\* this connection, and is reported online.
LiveConnectionKeepsRecord ==
  \A u \in Users :
    liveConn[u] # NoOne => (IsUserOnline(u) /\ presence[u].socketId = liveConn[u])

\* C25: the reconciliation of the cleanup job ends no session whose durable
\* write is still queued.
CleanupSparesNewSessions ==
  [][\A id \in SessionIds : (id \in cleaned' /\ id \notin cleaned) => durable[id] = NoRow]_vars

\* C26: a CLOSED breaker opens in exactly the steps in which the failures
\* since the last success reach failureThreshold, and an execute on a breaker
\* that is OPEN with the reset timeout not yet over rejects, calls nothing and
\* leaves state and counters as they are.
OpensAtThreshold ==
  [][/\ (cbState = "CLOSED" /\ cbLast' # "reset") =>
          (cbState' = "OPEN" <=> (failRun' = failureThreshold /\ failRun = failureThreshold - 1))
     /\ (Execute /\ cbState = "OPEN" /\ timeSinceLastFailure < resetTimeout) =>
          /\ cbLast' = "rejected"
          /\ UNCHANGED <<cbState, failures, successCount, timeSinceLastFailure, inflight>>]_vars

OpensAtThresholdWitness ==
  /\ cbState = "OPEN"
  /\ cbLast = "rejected"
  /\ failRun = failureThreshold
  /\ timeSinceLastFailure > 0

\* C27: a call that fails while the breaker is HALF_OPEN opens it, and the
\* breaker goes from HALF_OPEN to CLOSED only when the last three calls that
\* ended while HALF_OPEN succeeded.
TrialsGateClosing ==
  [][/\ (cbState = "HALF_OPEN" /\ cbLast' = "failed" /\ inflight' < inflight) => cbState' = "OPEN"
     /\ (cbState = "HALF_OPEN" /\ cbState' = "CLOSED" /\ cbLast' # "reset") =>
          trials' = <<"success", "success", "success">>]_vars

\* C28: a breaker that is OPEN with the reset timeout over is eventually not OPEN.
OpenEnds ==
  (cbState = "OPEN" /\ timeSinceLastFailure >= resetTimeout) ~> (cbState # "OPEN")

\* C29: a user's counter key is eventually gone again, so that a user over
\* the limit is eventually admitted.
CounterExpires ==
  \A u \in TrackedUsers : (rlCount[u] > 0) ~> (rlCount[u] = 0)

\* C30: a refreshAccessToken or rotateRefreshToken call on a token that a
\* rotation has already succeeded on returns null.
RotatedTokenIsDead ==
  [][\A t \in Tokens :
       (t \in rotated /\ (RefreshAccessToken(t) \/ RotateRefreshToken(t))) =>
         tokLast'.returned = "null"]_vars

\* C13: a tick commits a user into a session only while the user's entry is
\* in the queue and the user's socket is open, and a leave of a user that has
\* no entry leaves the queue as it is.
CancelIsSafe ==
  [][\A u \in Users :
       /\ MatchedNow(u) => (HasEntry(queue, u) /\ sock[u] = "open")
       /\ (qop' = QueueOp("leave", u) /\ ~HasEntry(queue, u)) => queue' = queue]_vars

\* the part of C13 about the explicit leave
LeaveIsSafe ==
  [][\A u \in Users :
       /\ MatchedNow(u) => HasEntry(queue, u)
       /\ (qop' = QueueOp("leave", u) /\ ~HasEntry(queue, u)) => queue' = queue]_vars

OfflineAfterLastOffline ==
  \A u \in Users :
    /\ IsUserOnline(u) <=> GetUserStatus(u) # "offline"
    /\ lastPresence[u] \in {"offline", "expired"} =>
         (~IsUserOnline(u) /\ GetUserStatus(u) = "offline")

\* C15: a step of the tracker that changes a user's record, other than the
\* expiry of its ttl, publishes a message naming that user.
ChangePublishes ==
  [][\A u \in Users :
       (presence'[u] # presence[u] /\ ~PresenceTtlStep(u)) => published'.userId = u]_vars

\* C16: once set-offline has completed for a user, with no set-online after
\* it, the user has no presence record.
OfflineIsFinal ==
  \A u \in Users :
    lastPresence[u] = "offline" => presence[u] = NoPresence

\* C1: no user is a participant of two sessions whose status is active at
\* the same time.
NoUserInTwoActiveSessions ==
  \A u \in Users : Cardinality(ActiveSessionsOf(u)) <= 1

\* C2: an acquire on a key that no unexpired lock holds succeeds and takes the
\* key, so that of concurrent acquires exactly one succeeds; an acquire on a
\* held, unexpired key fails at once, leaves the key as it is and the caller
\* does not wait.
AcquireExactlyOne ==
  [][\A i \in Instances :
       (pc[i] = "acquiring" /\ pc'[i] # "acquiring") =>
         IF lockVal[lkey[i]] = Nil /\ storeUp
           THEN /\ acquired'[i]
                /\ pc'[i] = "callback"
                /\ lockVal'[lkey[i]] # Nil
                /\ lockSetter'[lkey[i]] = i
           ELSE /\ ~acquired'[i]
                /\ pc'[i] = "idle"
                /\ result'[i] = "null"
                /\ lockVal'[lkey[i]] = lockVal[lkey[i]]
                /\ lockSetter'[lkey[i]] = lockSetter[lkey[i]]]_vars

\* two calls on one key: one is in its critical section, the other was refused
AcquireExactlyOneWitness ==
  \E i \in Instances, j \in Instances :
    /\ i # j
    /\ lkey[i] = lkey[j]
    /\ pc[i] = "callback" /\ acquired[i] /\ lockSetter[lkey[i]] = i
    /\ pc[j] = "idle" /\ result[j] = "null" /\ ~acquired[j]

\* C3: a release by an instance that is not the one whose acquire set the
\* key (its own lock expired, another instance re-acquired) leaves the key.
ReleaseOnlyOwnLock ==
  [][\A i \in Instances :
       (pc[i] = "finally" /\ pc'[i] = "idle" /\ lockSetter[lkey[i]] # i) =>
         /\ lockVal'[lkey[i]] = lockVal[lkey[i]]
         /\ lockSetter'[lkey[i]] = lockSetter[lkey[i]]]_vars

\* C4: at most one instance is inside the critical section of a lock key.
MutualExclusion ==
  \A k \in Keys : Cardinality({i \in Instances : pc[i] = "callback" /\ lkey[i] = k}) <= 1

StatusTransitions ==
  [][\A id \in SessionIds :
       (sessions[id] # NoRow /\ sessions'[id].status # sessions[id].status) =>
         <<sessions[id].status, sessions'[id].status>> \in
           {<<"active", "ended">>, <<"active", "abandoned">>, <<"abandoned", "ended">>}]_vars

\* an ended session and an abandoned one, each refused a further end call
StatusTransitionsWitness ==
  /\ \E c \in EndCalls :
       /\ endCall[c].res = "false"
       /\ endCall[c].sid \in Rows
       /\ sessions[endCall[c].sid].status = "ended"
       /\ endCall[c].arg = "abandoned"
  /\ \E id \in Rows : sessions[id].status = "abandoned"

\* the user's entry is stale: over the age ceiling, or its user is offline
\* or already in an active session (the stale party of a conflict)
StaleEntryOf(u) ==
  \/ \E e \in Entries(queue) : e.userId = u /\ OverMaxAge(e)
  \/ presence[u] = NoPresence
  \/ ActiveSessionsOf(u) # {}

DisconnectEndsSession ==
  \A id \in Rows :
    sessions[id].status = "active" =>
      \A u \in Participants(sessions[id]) : ~(sock[u] = "closed" /\ presence[u] = NoPresence)

=============================================================================
